---- MODULE Spec2Model ----
(***************************************************************************)
(* Multi-prime textbook RSA, as implemented by the two scripts of the      *)
(* repository:                                                             *)
(*   sf.py   module-level functions extended_gcd, generate_primes,         *)
(*           generate_key_pair, encrypt, decrypt;                          *)
(*   544.py  class RSA (generate_prime_vector, calculate_product_vector,   *)
(*           calculate_phi_vector, choose_public_key, is_coprime,          *)
(*           greatest_common_divisor, calculate_private_key).              *)
(* The variable impl says which script a behaviour runs.  Random draws     *)
(* (random.randint) are nondeterministic choices; a failed randint (empty  *)
(* range) is the ValueError the library raises.                            *)
(***************************************************************************)
EXTENDS Integers, Sequences, FiniteSets, TLC

VARIABLES
    impl,           \* "sf" or "544": the script that runs
    pc,             \* position in the run
    outcome,        \* "running", "ok", or the way the run ended
    count,          \* num_primes (sf.py) / n (544.py): primes asked for
    lower_bound,    \* sampler range, lower end
    upper_bound,    \* sampler range, upper end
    max_attempts,   \* 544.py only: the attempt budget
    prime_vector,   \* primes (sf.py) / prime_vector (544.py)
    attempt_count,  \* 544.py only: attempt_count
    draws,          \* 544.py only: number of random.randint calls made by the sampler
    n,              \* modulus
    phi,            \* phi_n (sf.py) / m (544.py)
    e,              \* public exponent (candidate, then chosen)
    d,              \* private exponent
    message,        \* sf.py: message unit handed to encrypt
    ciphertext,     \* sf.py: result of encrypt
    plaintext,      \* sf.py: result of decrypt
    a,              \* direct call: first argument
    b,              \* direct call: second argument
    result          \* direct call: what the call gave back

vars == <<impl, pc, outcome, count, lower_bound, upper_bound, max_attempts,
          prime_vector, attempt_count, draws, n, phi, e, d, message,
          ciphertext, plaintext, a, b, result>>

samplerVars == <<count, lower_bound, upper_bound, max_attempts, prime_vector,
                 attempt_count, draws>>
keyVars     == <<n, phi, e, d>>
cipherVars  == <<message, ciphertext, plaintext>>
callVars    == <<a, b, result>>

(***************************************************************************)
(* Bounds of the model.                                                    *)
(***************************************************************************)
\* largest number of primes asked for
MaxPrimes == 2
\* largest attempt budget handed to generate_prime_vector
MaxAttempts == 3
\* largest range end handed directly to a sampler
MaxBound == 7
\* a draw of the sampler lands in lower_bound .. lower_bound + DrawSpan
DrawSpan == 8
\* a draw of the exponent selection is at most MaxExponent
MaxExponent == 42
\* a message unit handed to encrypt is at most MaxUnit
MaxUnit == 104
\* arguments of a direct call of extended_gcd lie in -MaxAbs .. MaxAbs
MaxAbs == 8

(***************************************************************************)
(* Program constants: the default ranges of the samplers.                  *)
(***************************************************************************)
SfLowerBound  == 100
SfUpperBound  == 1000
RsaLowerBound == 2
RsaUpperBound == 1000

(***************************************************************************)
(* Python integer arithmetic: % takes the sign of the divisor, // floors.  *)
(***************************************************************************)
Abs(x) == IF x < 0 THEN -x ELSE x

Min(x, y) == IF x < y THEN x ELSE y

PyMod(x, y) == IF y > 0 THEN x % y ELSE -((-x) % (-y))

PyFloorDiv(x, y) ==
    LET num == x - PyMod(x, y)
    IN  IF (num >= 0) = (y > 0) THEN Abs(num) \div Abs(y)
                                ELSE -(Abs(num) \div Abs(y))

(***************************************************************************)
(* Arithmetic the properties are stated in.                                *)
(***************************************************************************)
Divides(k, x) == x % k = 0

\* x and y have no common divisor above 1
Coprime(x, y) ==
    IF x = 0 \/ y = 0 THEN Abs(x) + Abs(y) = 1
    ELSE \A k \in 2..Min(Abs(x), Abs(y)) : ~(Divides(k, x) /\ Divides(k, y))

\* g is the greatest common divisor of x and y (0 for x = y = 0)
IsGcd(g, x, y) ==
    IF x = 0 /\ y = 0 THEN g = 0
    ELSE /\ g >= 1 /\ Divides(g, x) /\ Divides(g, y)
         /\ \A k \in (g + 1)..(Abs(x) + Abs(y)) : ~(Divides(k, x) /\ Divides(k, y))

(***************************************************************************)
(* sympy.isprime on the integers the samplers draw.                        *)
(***************************************************************************)
isprime(c) == c >= 2 /\ \A k \in 2..(c - 1) : k * k > c \/ c % k # 0

(***************************************************************************)
(* sf.py extended_gcd: <<gcd, x, y>>.                                      *)
(***************************************************************************)
\* lines 14-17: from the triple of the recursive call to the triple returned
BackSubstitute(r, p, q) ==
    <<r[1], r[3], r[2] - PyFloorDiv(p, q) * r[3]>>

RECURSIVE extended_gcd(_, _)
extended_gcd(p, q) ==
    IF q = 0 THEN <<p, 1, 0>>
    ELSE BackSubstitute(extended_gcd(q, PyMod(p, q)), p, q)

(***************************************************************************)
(* 544.py RSA.greatest_common_divisor and RSA.is_coprime.                  *)
(***************************************************************************)
RECURSIVE greatest_common_divisor(_, _)
greatest_common_divisor(p, q) ==
    IF q # 0 THEN greatest_common_divisor(q, PyMod(p, q)) ELSE p

is_coprime_loose(p, q) == greatest_common_divisor(p, q) <= 2

is_coprime(p, q) == greatest_common_divisor(p, q) = 1

(***************************************************************************)
(* sympy.gcd(e, phi_n) of sf.py line 52, on positive integers: the         *)
(* non-negative greatest common divisor.                                   *)
(***************************************************************************)
RECURSIVE sympy_gcd(_, _)
sympy_gcd(p, q) == IF q = 0 THEN Abs(p) ELSE sympy_gcd(q, p % Abs(q))

(***************************************************************************)
(* The samplers.                                                           *)
(***************************************************************************)
\* random.randint(lo, hi) raises ValueError when lo > hi
EmptyRange(lo, hi) == lo > hi

\* what a draw random.randint(lower_bound, upper_bound) can give, within DrawSpan
Candidates(lo, hi) == lo..Min(hi, lo + DrawSpan)

ExhaustedBeforeLast(attempts, budget) == attempts >= budget

\* 544.py line 34, after the increment of line 33
Exhausted(attempts, budget) == attempts > budget

\* 544.py generate_prime_vector, one turn of the loop (lines 32-38)
RsaAttempt ==
    /\ impl = "544" /\ pc = "sample"
    /\ Len(prime_vector) < count
    /\ attempt_count' = attempt_count + 1
    /\ IF Exhausted(attempt_count + 1, max_attempts)
       THEN /\ pc' = "done" /\ outcome' = "exhausted"
            /\ UNCHANGED <<prime_vector, draws>>
       ELSE IF EmptyRange(lower_bound, upper_bound)
       THEN /\ pc' = "done" /\ outcome' = "empty_range"
            /\ UNCHANGED <<prime_vector, draws>>
       ELSE \E candidate \in Candidates(lower_bound, upper_bound) :
            /\ draws' = draws + 1
            /\ prime_vector' = IF isprime(candidate)
                               THEN Append(prime_vector, candidate)
                               ELSE prime_vector
            /\ UNCHANGED <<pc, outcome>>
    /\ UNCHANGED <<impl, count, lower_bound, upper_bound, max_attempts>>
    /\ UNCHANGED <<keyVars, cipherVars, callVars>>

\* 544.py generate_prime_vector, loop exit and return (lines 32, 39)
RsaReturnVector ==
    /\ impl = "544" /\ pc = "sample"
    /\ ~(Len(prime_vector) < count)
    /\ pc' = "sampled"
    /\ UNCHANGED <<impl, outcome, samplerVars, keyVars, cipherVars, callVars>>

\* sf.py generate_primes, one turn of the loop (lines 29-32)
SfDraw ==
    /\ impl = "sf" /\ pc = "sample"
    /\ Len(prime_vector) < count
    /\ IF EmptyRange(lower_bound, upper_bound)
       THEN /\ pc' = "done" /\ outcome' = "empty_range"
            /\ UNCHANGED prime_vector
       ELSE \E candidate \in Candidates(lower_bound, upper_bound) :
            /\ prime_vector' = IF isprime(candidate)
                               THEN Append(prime_vector, candidate)
                               ELSE prime_vector
            /\ UNCHANGED <<pc, outcome>>
    /\ UNCHANGED <<impl, count, lower_bound, upper_bound, max_attempts,
                   attempt_count, draws>>
    /\ UNCHANGED <<keyVars, cipherVars, callVars>>

\* sf.py generate_primes, loop exit and return (lines 29, 33)
SfReturnPrimes ==
    /\ impl = "sf" /\ pc = "sample"
    /\ ~(Len(prime_vector) < count)
    /\ pc' = "sampled"
    /\ UNCHANGED <<impl, outcome, samplerVars, keyVars, cipherVars, callVars>>

NoResult == [op |-> "none", kind |-> "none", g |-> 0, x |-> 0, y |-> 0]

\* everything but the sampler's arguments, before the run starts
Fresh ==
    /\ pc = "sample" /\ outcome = "running"
    /\ prime_vector = <<>> /\ attempt_count = 0 /\ draws = 0
    /\ n = 0 /\ phi = 0 /\ e = 0 /\ d = 0
    /\ message = 0 /\ ciphertext = 0 /\ plaintext = 0
    /\ a = 0 /\ b = 0 /\ result = NoResult

(***************************************************************************)
(* A sampler called directly, with any range and budget.                   *)
(***************************************************************************)
SamplerInit ==
    /\ impl \in {"sf", "544"}
    /\ count \in 0..MaxPrimes
    /\ lower_bound \in 0..MaxBound
    /\ upper_bound \in 0..MaxBound
    /\ max_attempts \in IF impl = "544" THEN 0..MaxAttempts ELSE {0}
    /\ Fresh

SamplerNext == RsaAttempt \/ RsaReturnVector \/ SfDraw \/ SfReturnPrimes

SamplerSpec == SamplerInit /\ [][SamplerNext]_vars

(***************************************************************************)
(* Modulus and totient.                                                    *)
(***************************************************************************)
RECURSIVE Product(_)
Product(s) == IF s = <<>> THEN 1 ELSE Head(s) * Product(Tail(s))

\* sf.py lines 46-48, phi_n
RECURSIVE PhiProduct(_)
PhiProduct(s) == IF s = <<>> THEN 1 ELSE (Head(s) - 1) * PhiProduct(Tail(s))

\* 544.py RSA.calculate_product_vector
calculate_product_vector(s) == Product(s)

\* 544.py RSA.calculate_phi_vector
calculate_phi_vector(s) == PhiProduct(s)

(***************************************************************************)
(* Exponent selection: random.randint(2, phi - 1), resampled until the     *)
(* drawn value is coprime to phi.  No attempt budget.                      *)
(***************************************************************************)
ExponentRangeShort(m) == 2..(m - 2)

ExponentRange(m) == 2..(m - 1)

\* what a draw random.randint(2, m - 1) can give, within MaxExponent
ExponentDraws(m) == {v \in 0..MaxExponent : v \in ExponentRange(m)}

(***************************************************************************)
(* Private exponent.                                                       *)
(***************************************************************************)
NormalizeSkipped(x, m) == x

\* sf.py lines 59-60: while d < 0: d += phi_n
RECURSIVE Normalize(_, _)
Normalize(x, m) == IF x < 0 THEN Normalize(x + m, m) ELSE x

sf_private_exponent_unchecked(ee, m) ==
    [op |-> "sf_private_exponent", kind |-> "value",
     g |-> extended_gcd(ee, m)[1], x |-> Normalize(extended_gcd(ee, m)[2], m),
     y |-> 0]

\* sf.py lines 56-60: the private exponent, or the ValueError of line 58
sf_private_exponent(ee, m) ==
    LET r == extended_gcd(ee, m)
    IN  IF r[1] # 1
        THEN [op |-> "sf_private_exponent", kind |-> "raise",
              g |-> r[1], x |-> 0, y |-> 0]
        ELSE [op |-> "sf_private_exponent", kind |-> "value",
              g |-> r[1], x |-> Normalize(r[2], m), y |-> 0]

\* sympy.mod_inverse(e, m) for m >= 2: the inverse in 0..m-1, or ValueError
mod_inverse(ee, m) ==
    IF sympy_gcd(ee, m) # 1
    THEN [kind |-> "ValueError", c |-> 0]
    ELSE [kind |-> "value", c |-> PyMod(extended_gcd(ee, m)[2], m)]

\* 544.py RSA.calculate_private_key: the ValueError is caught, None returned
calculate_private_key(ee, m) ==
    LET r == mod_inverse(ee, m)
    IN  IF r.kind = "ValueError"
        THEN [op |-> "calculate_private_key", kind |-> "None",
              g |-> 0, x |-> 0, y |-> 0]
        ELSE [op |-> "calculate_private_key", kind |-> "value",
              g |-> 0, x |-> r.c, y |-> 0]

(***************************************************************************)
(* pow(base, exp, mod) for exp >= 0 and mod >= 1, by repeated squaring.    *)
(***************************************************************************)
RECURSIVE PyPow(_, _, _)
PyPow(base, ex, md) ==
    IF ex = 0 THEN 1 % md
    ELSE LET h == PyPow(base, ex \div 2, md)
             t == (h * h) % md
         IN  IF ex % 2 = 1 THEN (t * (base % md)) % md ELSE t

encrypt_swapped(msg, public_key) == PyPow(msg, public_key[2], public_key[1])

\* sf.py encrypt(message, public_key)
encrypt(msg, public_key) == PyPow(msg, public_key[1], public_key[2])

\* sf.py decrypt(ciphertext, private_key)
decrypt(ct, private_key) == PyPow(ct, private_key[1], private_key[2])

(***************************************************************************)
(* sf.py generate_key_pair after the sampler has returned.                 *)
(***************************************************************************)
\* lines 43-48
SfProduct ==
    /\ impl = "sf" /\ pc = "sampled"
    /\ n' = Product(prime_vector)
    /\ phi' = PhiProduct(prime_vector)
    /\ pc' = "choose_e"
    /\ UNCHANGED <<impl, outcome, samplerVars, e, d, cipherVars, callVars>>

\* line 51
SfChooseE ==
    /\ impl = "sf" /\ pc = "choose_e"
    /\ IF ExponentRange(phi) = {}
       THEN /\ pc' = "done" /\ outcome' = "empty_range" /\ UNCHANGED e
       ELSE /\ \E v \in ExponentDraws(phi) : e' = v
            /\ pc' = "test_e" /\ UNCHANGED outcome
    /\ UNCHANGED <<impl, samplerVars, n, phi, d, cipherVars, callVars>>

\* lines 52-53: the drawn value is not coprime, v is drawn
SfResampleE(v) ==
    /\ impl = "sf" /\ pc = "test_e"
    /\ sympy_gcd(e, phi) # 1
    /\ v \in ExponentDraws(phi)
    /\ e' = v
    /\ UNCHANGED <<impl, pc, outcome, samplerVars, n, phi, d, cipherVars, callVars>>

\* line 52: the drawn value is coprime, the loop is left
SfAcceptE ==
    /\ impl = "sf" /\ pc = "test_e"
    /\ ~(sympy_gcd(e, phi) # 1)
    /\ pc' = "chosen"
    /\ UNCHANGED <<impl, outcome, samplerVars, keyVars, cipherVars, callVars>>

\* lines 56-61
SfDeriveKey ==
    /\ impl = "sf" /\ pc = "chosen"
    /\ LET r == sf_private_exponent(e, phi)
       IN  IF r.kind = "raise"
           THEN /\ pc' = "done" /\ outcome' = "not_invertible" /\ UNCHANGED d
           ELSE /\ pc' = "keys" /\ outcome' = "ok" /\ d' = r.x
    /\ UNCHANGED <<impl, samplerVars, n, phi, e, cipherVars, callVars>>

\* encrypt(m, (e, n)) for a message unit 0 <= m < n
SfEncrypt ==
    /\ impl = "sf" /\ pc = "keys"
    /\ \E m \in 0..Min(n - 1, MaxUnit) :
        /\ message' = m
        /\ ciphertext' = encrypt(m, <<e, n>>)
    /\ plaintext' = plaintext
    /\ pc' = "encrypted"
    /\ UNCHANGED <<impl, outcome, samplerVars, keyVars, callVars>>

\* decrypt(c, (d, n))
SfDecrypt ==
    /\ impl = "sf" /\ pc = "encrypted"
    /\ plaintext' = decrypt(ciphertext, <<d, n>>)
    /\ pc' = "decrypted"
    /\ UNCHANGED <<impl, outcome, samplerVars, keyVars, message, ciphertext, callVars>>

(***************************************************************************)
(* 544.py: the key generation of the script, method by method.             *)
(***************************************************************************)
\* calculate_product_vector and calculate_phi_vector
RsaProduct ==
    /\ impl = "544" /\ pc = "sampled"
    /\ n' = calculate_product_vector(prime_vector)
    /\ phi' = calculate_phi_vector(prime_vector)
    /\ pc' = "choose_e"
    /\ UNCHANGED <<impl, outcome, samplerVars, e, d, cipherVars, callVars>>

\* choose_public_key, lines 81-82
RsaChooseE ==
    /\ impl = "544" /\ pc = "choose_e"
    /\ IF ExponentRange(phi) = {}
       THEN /\ pc' = "done" /\ outcome' = "empty_range" /\ UNCHANGED e
       ELSE /\ \E v \in ExponentDraws(phi) : e' = v
            /\ pc' = "test_e" /\ UNCHANGED outcome
    /\ UNCHANGED <<impl, samplerVars, n, phi, d, cipherVars, callVars>>

\* choose_public_key, lines 83-86: the drawn value is not coprime, v is drawn
RsaResampleE(v) ==
    /\ impl = "544" /\ pc = "test_e"
    /\ ~is_coprime(e, phi)
    /\ v \in ExponentDraws(phi)
    /\ e' = v
    /\ UNCHANGED <<impl, pc, outcome, samplerVars, n, phi, d, cipherVars, callVars>>

\* choose_public_key, lines 84-85 and 87
RsaAcceptE ==
    /\ impl = "544" /\ pc = "test_e"
    /\ is_coprime(e, phi)
    /\ pc' = "chosen"
    /\ UNCHANGED <<impl, outcome, samplerVars, keyVars, cipherVars, callVars>>

\* calculate_private_key
RsaPrivateKey ==
    /\ impl = "544" /\ pc = "chosen"
    /\ LET r == calculate_private_key(e, phi)
       IN  IF r.kind = "None"
           THEN /\ pc' = "done" /\ outcome' = "none_returned" /\ UNCHANGED d
           ELSE /\ pc' = "keys" /\ outcome' = "ok" /\ d' = r.x
    /\ UNCHANGED <<impl, samplerVars, n, phi, e, cipherVars, callVars>>

(***************************************************************************)
(* Key generation with the samplers' default ranges.                       *)
(***************************************************************************)
Init ==
    /\ impl \in {"sf", "544"}
    /\ count \in 0..MaxPrimes
    /\ lower_bound = IF impl = "sf" THEN SfLowerBound ELSE RsaLowerBound
    /\ upper_bound = IF impl = "sf" THEN SfUpperBound ELSE RsaUpperBound
    /\ max_attempts \in IF impl = "544" THEN 0..MaxAttempts ELSE {0}
    /\ Fresh

SfKeyGeneration ==
    \/ SfDraw \/ SfReturnPrimes \/ SfProduct \/ SfChooseE
    \/ (\E v \in 0..MaxExponent : SfResampleE(v))
    \/ SfAcceptE \/ SfDeriveKey

RsaStep ==
    \/ RsaAttempt \/ RsaReturnVector \/ RsaProduct \/ RsaChooseE
    \/ (\E v \in 0..MaxExponent : RsaResampleE(v))
    \/ RsaAcceptE \/ RsaPrivateKey

Next == SfKeyGeneration \/ RsaStep

Spec == Init /\ [][Next]_vars

(***************************************************************************)
(* sf.py: generate_key_pair(num_primes) with num_primes <= 2, then one     *)
(* message unit encrypted and decrypted.                                   *)
(***************************************************************************)
RoundTripInit ==
    /\ impl = "sf"
    /\ count \in 0..2
    /\ lower_bound = SfLowerBound
    /\ upper_bound = SfUpperBound
    /\ max_attempts = 0
    /\ Fresh

SfStep == SfKeyGeneration \/ SfEncrypt \/ SfDecrypt

RoundTripSpec == RoundTripInit /\ [][SfStep]_vars

(***************************************************************************)
(* The sf.py steps on the primes of a sampler run over the range 53..61,  *)
(* which holds the primes 53, 59 and 61.                                   *)
(***************************************************************************)
ScenarioInit ==
    /\ impl = "sf"
    /\ count = 2
    /\ lower_bound = 53
    /\ upper_bound = 61
    /\ max_attempts = 0
    /\ Fresh

ScenarioSpec == ScenarioInit /\ [][SfStep]_vars

(***************************************************************************)
(* Exponent selection alone.  choose_public_key takes any phi vector; the  *)
(* loop of sf.py runs on the totients of its default range.                *)
(***************************************************************************)
SfPrimes == {p \in Candidates(SfLowerBound, SfUpperBound) : isprime(p)}

SfTotients ==
    {PhiProduct(s) : s \in UNION {[1..k -> SfPrimes] : k \in 0..MaxPrimes}}

ExponentInit ==
    /\ impl \in {"sf", "544"}
    /\ phi \in IF impl = "sf" THEN SfTotients ELSE 1..(MaxExponent + 1)
    /\ pc = "choose_e" /\ outcome = "running"
    /\ count = 0 /\ lower_bound = 0 /\ upper_bound = 0 /\ max_attempts = 0
    /\ prime_vector = <<>> /\ attempt_count = 0 /\ draws = 0
    /\ n = 0 /\ e = 0 /\ d = 0
    /\ message = 0 /\ ciphertext = 0 /\ plaintext = 0
    /\ a = 0 /\ b = 0 /\ result = NoResult

ExponentNext ==
    \/ SfChooseE
    \/ (\E v \in 0..MaxExponent : SfResampleE(v))
    \/ SfAcceptE
    \/ RsaChooseE
    \/ (\E v \in 0..MaxExponent : RsaResampleE(v))
    \/ RsaAcceptE

\* The program keeps running, and the random source is fair: while the
\* loop resamples, a value of the range that would end it (every value of
\* the range is drawn sooner or later) is drawn sooner or later.
CoprimeDraw ==
    \E v \in 0..MaxExponent :
        /\ SfResampleE(v) \/ RsaResampleE(v)
        /\ Coprime(v, phi)

FairDraws ==
    /\ WF_vars(SfChooseE \/ SfAcceptE \/ RsaChooseE \/ RsaAcceptE)
    /\ WF_vars(CoprimeDraw)

FairExponentSpec == ExponentInit /\ [][ExponentNext]_vars /\ FairDraws

(***************************************************************************)
(* Direct calls of extended_gcd (any integers) and of the two private-     *)
(* exponent computations (e >= 0, phi >= 2).                               *)
(***************************************************************************)
CallInit ==
    /\ impl \in {"sf", "544"}
    /\ a \in (-MaxAbs)..MaxAbs
    /\ b \in (-MaxAbs)..MaxAbs
    /\ pc = "call" /\ outcome = "running" /\ result = NoResult
    /\ count = 0 /\ lower_bound = 0 /\ upper_bound = 0 /\ max_attempts = 0
    /\ prime_vector = <<>> /\ attempt_count = 0 /\ draws = 0
    /\ n = 0 /\ phi = 0 /\ e = 0 /\ d = 0
    /\ message = 0 /\ ciphertext = 0 /\ plaintext = 0

Returned == UNCHANGED <<impl, outcome, samplerVars, keyVars, cipherVars, a, b>>

CallExtendedGcd ==
    /\ impl = "sf" /\ pc = "call"
    /\ LET r == extended_gcd(a, b)
       IN  result' = [op |-> "extended_gcd", kind |-> "value",
                      g |-> r[1], x |-> r[2], y |-> r[3]]
    /\ pc' = "returned"
    /\ Returned

CallSfPrivateExponent ==
    /\ impl = "sf" /\ pc = "call"
    /\ a >= 0 /\ b >= 2
    /\ result' = sf_private_exponent(a, b)
    /\ pc' = "returned"
    /\ Returned

CallRsaPrivateKey ==
    /\ impl = "544" /\ pc = "call"
    /\ a >= 0 /\ b >= 2
    /\ result' = calculate_private_key(a, b)
    /\ pc' = "returned"
    /\ Returned

CallNext == CallExtendedGcd \/ CallSfPrivateExponent \/ CallRsaPrivateKey

CallSpec == CallInit /\ [][CallNext]_vars

Distinct(s) == \A i, j \in 1..Len(s) : i # j => s[i] # s[j]

KeysReturned == pc \in {"keys", "encrypted", "decrypted"}

(***************************************************************************)
(* Properties.                                                             *)
(***************************************************************************)

\* C1: round trip.  For every key pair generate_key_pair(num_primes) of sf.py
\* returns with num_primes >= 2, repeated primes included, and every message
\* unit 0 <= m < n: decrypt(encrypt(m, pub), priv) = m.
RoundTrip ==
    (impl = "sf" /\ pc = "decrypted" /\ Len(prime_vector) >= 2)
        => plaintext = message

\* The round trip on key pairs whose primes are pairwise distinct.
RoundTripDistinctPrimes ==
    (impl = "sf" /\ pc = "decrypted" /\ Distinct(prime_vector))
        => plaintext = message

\* C2: key consistency.  Every key pair that key generation returns has
\* 0 <= d < phi and (e * d) mod phi = 1.
KeyConsistency ==
    outcome = "ok" => (0 <= d /\ d < phi /\ (e * d) % phi = 1)

\* a key pair of sf.py whose Bezout coefficient was negative and was normalized
KeyConsistencyWitness ==
    /\ impl = "sf" /\ pc = "keys" /\ outcome = "ok"
    /\ Len(prime_vector) = 2
    /\ extended_gcd(e, phi)[2] < 0
    /\ d = extended_gcd(e, phi)[2] + phi

\* C3: coprimality.  Every public exponent that exponent selection returns
\* (sf.py: the loop of lines 52-53 is left; 544.py: choose_public_key
\* returns) has 2 <= e < phi and gcd(e, phi) = 1.
Coprimality ==
    (pc \in {"chosen", "keys", "encrypted", "decrypted"}
        \/ outcome \in {"ok", "not_invertible", "none_returned"})
        => (2 <= e /\ e < phi /\ Coprime(e, phi))

\* choose_public_key has returned an exponent after at least two primes
CoprimalityWitness ==
    /\ impl = "544" /\ pc = "chosen" /\ Len(prime_vector) = 2 /\ e > 2

\* C4: exhaustion bound.  A sampler run with count >= 1 on an impossible
\* range (lower_bound > upper_bound, or no prime in the range) ends, and
\* ends only, by raising the exhausted-attempts error.
ImpossibleRange ==
    lower_bound > upper_bound
        \/ \A c \in lower_bound..upper_bound : ~isprime(c)

ExhaustionBound ==
    (count >= 1 /\ ImpossibleRange /\ pc # "sample") => outcome = "exhausted"

\* generate_prime_vector on a non-empty range without primes ends by the
\* exhausted-attempts error and in no other way
RsaExhaustedOnPrimeFreeRange ==
    (impl = "544" /\ count >= 1 /\ lower_bound <= upper_bound
        /\ ImpossibleRange /\ pc # "sample")
        => outcome = "exhausted"

\* generate_primes of sf.py on a non-empty range without primes never
\* leaves its loop
SfLoopsOnPrimeFreeRange ==
    (impl = "sf" /\ count >= 1 /\ lower_bound <= upper_bound /\ ImpossibleRange)
        => pc = "sample"

\* C5 as stated: a private-exponent computation run on (e, phi) with
\* gcd(e, phi) # 1 ends in a not-invertible error raised to the caller.
NotInvertibleSurfaced ==
    (pc = "returned"
        /\ result.op \in {"sf_private_exponent", "calculate_private_key"}
        /\ ~Coprime(a, b))
        => result.kind = "raise"

\* C5: a private-exponent computation run on (e, phi) with gcd(e, phi) # 1
\* never returns a private exponent: sf.py raises ValueError to the caller,
\* calculate_private_key of 544.py catches the ValueError of mod_inverse and
\* returns None.
NotInvertibleReported ==
    (pc = "returned"
        /\ result.op \in {"sf_private_exponent", "calculate_private_key"}
        /\ ~Coprime(a, b))
        => /\ result.kind # "value"
           /\ result.op = "sf_private_exponent" => result.kind = "raise"
           /\ result.op = "calculate_private_key" => result.kind = "None"

\* calculate_private_key was run on e = 2, phi = 4 and returned None
NotInvertibleWitness ==
    /\ pc = "returned" /\ result.op = "calculate_private_key"
    /\ a = 2 /\ b = 4 /\ result.kind = "None"

\* on coprime pairs both computations return the inverse of e in 0..phi-1
InverseReturned ==
    (pc = "returned"
        /\ result.op \in {"sf_private_exponent", "calculate_private_key"}
        /\ Coprime(a, b))
        => /\ result.kind = "value"
           /\ 0 <= result.x /\ result.x < b
           /\ (a * result.x) % b = 1

\* C6: Bezout identity.  For all integers a and b, extended_gcd(a, b)
\* returns (g, x, y) with a*x + b*y = g, g the greatest common divisor of
\* a and b, g >= 0.
Bezout ==
    (pc = "returned" /\ result.op = "extended_gcd")
        => /\ a * result.x + b * result.y = result.g
           /\ result.g >= 0
           /\ IsGcd(result.g, a, b)

\* what extended_gcd gives on all integers: the identity, and the greatest
\* common divisor up to sign; the sign is right when a, b >= 0
BezoutUpToSign ==
    (pc = "returned" /\ result.op = "extended_gcd")
        => /\ a * result.x + b * result.y = result.g
           /\ IsGcd(Abs(result.g), a, b)
           /\ (a >= 0 /\ b >= 0) => result.g >= 0

\* C7: degenerate case.  Key generation with one prime p completes and
\* returns a key pair with n = p, phi = p - 1, 2 <= e < phi, gcd(e, phi) = 1
\* and (e * d) mod phi = 1, for every prime of the sampler's default range.
DegenerateKeyPair ==
    (count = 1 /\ Len(prime_vector) = 1 /\ (pc = "done" \/ KeysReturned))
        => /\ outcome = "ok"
           /\ n = prime_vector[1] /\ phi = prime_vector[1] - 1
           /\ 2 <= e /\ e < phi /\ Coprime(e, phi)
           /\ (e * d) % phi = 1

\* the same, for sf.py alone
SfDegenerateKeyPair ==
    (impl = "sf" /\ count = 1 /\ Len(prime_vector) = 1
        /\ (pc = "done" \/ KeysReturned))
        => /\ outcome = "ok"
           /\ n = prime_vector[1] /\ phi = prime_vector[1] - 1
           /\ 2 <= e /\ e < phi /\ Coprime(e, phi)
           /\ (e * d) % phi = 1

\* C8: concrete scenario.  With the sampled primes 61 and 53: n = 3233 and
\* phi = 3120; with e = 17 the derived private exponent is d = 2753;
\* encrypt(65, (17, 3233)) = 2790 and decrypt(2790, (2753, 3233)) = 65.
ConcreteScenario ==
    (prime_vector = <<61, 53>> /\ pc \notin {"sample", "sampled"})
        => /\ n = 3233 /\ phi = 3120
           /\ (KeysReturned /\ e = 17) => d = 2753
           /\ (pc \in {"encrypted", "decrypted"} /\ e = 17 /\ message = 65)
                 => ciphertext = 2790
           /\ (pc = "decrypted" /\ d = 2753 /\ ciphertext = 2790)
                 => plaintext = 65

\* the scenario has run to its end
ConcreteScenarioWitness ==
    /\ prime_vector = <<61, 53>> /\ pc = "decrypted"
    /\ e = 17 /\ d = 2753 /\ message = 65 /\ ciphertext = 2790
    /\ extended_gcd(17, 3120)[2] < 0

ExponentSelectionTerminates ==
    /\ [](phi >= 3 => outcome # "empty_range")
    /\ [](phi >= 3 => \E v \in ExponentDraws(phi) : Coprime(v, phi))
    /\ [](phi >= 3 => <>(pc = "chosen"))

\* the loop was left with the only coprime value of the range 2..3
ExponentSelectionWitness ==
    /\ impl = "544" /\ pc = "chosen" /\ phi = 4 /\ e = 3

====
